---- MODULE Spec2Model ----
(***************************************************************************)
(* Model of AI_Research_Agent.py: the link checker and link annotator,     *)
(* the JSON result store, the LLM gateway wrapper and the three tab        *)
(* handlers of the Streamlit script.                                       *)
(*                                                                         *)
(* Text is a sequence of lexical units.  The two scheme literals          *)
(* "http://" and "https://" are single units; every other unit is one      *)
(* character.  No other unit is a letter of a scheme literal, so a regex   *)
(* or substring match on the units is a match on the characters.           *)
(***************************************************************************)
EXTENDS Integers, Sequences, FiniteSets, TLC

\* ------------------------------------------------------------------ bounds
\* Longest input text of the annotator, in units.
MaxTextLen == 6
\* Status codes a response or an API status error is drawn from.
MinStatus == 100
MaxStatus == 599
\* Most members of a store document present before the program starts.
MaxDocEntries == 2
\* Most records an earlier run left in the store the tabs start from.
MaxInitEntries == 1
\* Most save_result calls per topic by the store's client.
MaxUpserts == 2
\* Most unique URLs of a text given to the saturated pool.
MaxPoolUrls == 12

\* ------------------------------------------------------------------ text
Schemes == {"http://", "https://"}
\* \s, ")" and ">" end a URL (the class [^\s\)\>] of the pattern).
UrlStoppers == {" ", ")", ">"}
Alphabet == {"http://", "https://", "a", " ", ")"}
\* Python's None, for an absent argument or an absent return value.
None == <<"None">>
EmptyStr == <<>>

\* Status glyphs of url_statuses (ASCII stand-ins for the three emoji).
GlyphValid == "[ok]"
GlyphInvalid == "[x]"
GlyphError == "[!]"
Glyphs == {GlyphValid, GlyphInvalid, GlyphError}

IsUrlChar(c) == c \notin UrlStoppers

\* Python truthiness of a str-or-None value: None and "" are falsy.
Truthy(v) == v # None /\ v # EmptyStr

SeqDrop(s, n) == SubSeq(s, n + 1, Len(s))
SeqTake(s, n) == SubSeq(s, 1, n)
StartsWith(s, p) == Len(p) <= Len(s) /\ SeqTake(s, Len(p)) = p

\* Length of the longest run of URL characters at the start of s.
RECURSIVE UrlRun(_)
UrlRun(s) ==
  IF s = <<>> \/ ~IsUrlChar(Head(s)) THEN 0 ELSE 1 + UrlRun(Tail(s))

\* FindAll with the pattern's "+" read as "*": a scheme alone is a match.
RECURSIVE FindAllStar(_)
FindAllStar(s) ==
  IF s = <<>> THEN <<>>
  ELSE IF Head(s) \in Schemes
       THEN <<SeqTake(s, 1 + UrlRun(Tail(s)))>> \o FindAllStar(SeqDrop(s, 1 + UrlRun(Tail(s))))
       ELSE FindAllStar(Tail(s))

\* re.findall(r'https?://[^\s\)\>]+', text): the non-overlapping matches, left
\* to right, each one a scheme followed by the longest non-empty run.
RECURSIVE FindAll(_)
FindAll(s) ==
  IF s = <<>> THEN <<>>
  ELSE IF Head(s) \in Schemes /\ UrlRun(Tail(s)) >= 1
       THEN <<SeqTake(s, 1 + UrlRun(Tail(s)))>> \o FindAll(SeqDrop(s, 1 + UrlRun(Tail(s))))
       ELSE FindAll(Tail(s))

\* str.replace(old, new): every non-overlapping occurrence, left to right.
RECURSIVE Replace(_, _, _)
Replace(s, old, new) ==
  IF Len(s) < Len(old) THEN s
  ELSE IF StartsWith(s, old) THEN new \o Replace(SeqDrop(s, Len(old)), old, new)
       ELSE <<Head(s)>> \o Replace(Tail(s), old, new)

SeqToSet(s) == {s[i] : i \in 1..Len(s)}

Texts == UNION {[1..n -> Alphabet] : n \in 0..MaxTextLen}

\* A unit a Python str can hold and UTF-8 cannot encode: a lone surrogate, as
\* json.load makes of the escape \ud800.
Surrogate == "\\ud800"
\* str.encode("utf-8") succeeds on t.
Encodable(t) == \A i \in 1..Len(t) : t[i] # Surrogate

\* ------------------------------------------------------------------ LinkChecker
\* What requests.head(url, allow_redirects=True, timeout=5) can do: answer with
\* a status code, raise a requests.RequestException (DNS, refused, timeout, TLS),
\* or raise an exception that is no RequestException.
Resp(code) == [kind |-> "response", status_code |-> code]
HeadRequestException == [kind |-> "RequestException", status_code |-> 0]
HeadOtherException == [kind |-> "Exception", status_code |-> 0]

Returned(v) == [raised |-> FALSE, value |-> v]
Raised == [raised |-> TRUE, value |-> FALSE]

\* check_url_status with "<= 400" for "< 400".
check_url_status_le(head) ==
  IF head.kind = "response"
  THEN IF 200 <= head.status_code /\ head.status_code <= 400
       THEN Returned(TRUE)
       ELSE Returned(FALSE)
  ELSE IF head.kind = "RequestException" THEN Returned(FALSE)
       ELSE Raised

\* check_url_status(url), given what the HEAD request did.
check_url_status(head) ==
  IF head.kind = "response"
  THEN IF 200 <= head.status_code /\ head.status_code < 400
       THEN Returned(TRUE)
       ELSE Returned(FALSE)
  ELSE IF head.kind = "RequestException" THEN Returned(FALSE)
       ELSE Raised

\* ------------------------------------------------------------------ LinkAnnotator
max_workers == 10

\* The HEAD outcomes the annotator's checks are run against.
AnnotHeads == {Resp(200), Resp(404), HeadRequestException, HeadOtherException}

VARIABLES
  text,           \* argument of verify_links_in_text
  vpc,            \* position in verify_links_in_text
  urls,           \* list returned by re.findall
  head_of,        \* URL -> outcome of its HEAD request during this pass
  work_queue,     \* submitted checks no worker has taken yet
  running,        \* checks a worker is executing
  future_result,  \* URL -> outcome of its completed future
  url_statuses,   \* dict URL -> glyph, as the list of its items in insertion order
  check_calls,    \* URL -> number of check_url_status calls made for it
  verified_text   \* the text being rewritten; the return value at "done"

avars == <<text, vpc, urls, head_of, work_queue, running, future_result,
           url_statuses, check_calls, verified_text>>

EmptyMap == [x \in {} |-> 0]

\* The glyph of a future whose exception is taken for a False result.
StatusGlyphNoError(r) == IF r.value THEN GlyphValid ELSE GlyphInvalid

\* "✅" if is_valid else "❌"; "⚠️" when future.result() raised.
StatusGlyph(r) ==
  IF r.raised THEN GlyphError ELSE IF r.value THEN GlyphValid ELSE GlyphInvalid

\* for url, status in url_statuses.items():
\*     verified_text = verified_text.replace(url, f'{url} {status}')
RECURSIVE RewriteAll(_, _)
RewriteAll(t, statuses) ==
  IF statuses = <<>> THEN t
  ELSE RewriteAll(Replace(t, Head(statuses)[1],
                          Head(statuses)[1] \o <<" ", Head(statuses)[2]>>),
                  Tail(statuses))

AnnotInit ==
  /\ text \in Texts \cup {None}
  /\ vpc = "call"
  /\ urls = <<>>
  /\ head_of = EmptyMap
  /\ work_queue = {}
  /\ running = {}
  /\ future_result = EmptyMap
  /\ url_statuses = <<>>
  /\ check_calls = EmptyMap
  /\ verified_text = EmptyStr

\* Lines 334-342: the two early returns, else extraction and the submission of
\* one check per element of set(urls).
VerifyCall ==
  /\ vpc = "call"
  /\ IF ~Truthy(text)
     THEN /\ verified_text' = EmptyStr
          /\ vpc' = "done"
          /\ UNCHANGED <<urls, head_of, work_queue, check_calls>>
     ELSE IF FindAll(text) = <<>>
          THEN /\ verified_text' = text
               /\ vpc' = "done"
               /\ UNCHANGED <<urls, head_of, work_queue, check_calls>>
          ELSE /\ urls' = FindAll(text)
               /\ verified_text' = text
               /\ work_queue' = SeqToSet(FindAll(text))
               /\ head_of' \in [SeqToSet(FindAll(text)) -> AnnotHeads]
               /\ check_calls' = [u \in SeqToSet(FindAll(text)) |-> 0]
               /\ vpc' = "pool"
  /\ UNCHANGED <<text, running, future_result, url_statuses>>

\* A submitted check is started whether or not a worker of the pool is free.
StartCheckUnbounded(u) ==
  /\ vpc = "pool"
  /\ u \in work_queue
  /\ work_queue' = work_queue \ {u}
  /\ running' = running \cup {u}
  /\ check_calls' = [check_calls EXCEPT ![u] = @ + 1]
  /\ UNCHANGED <<text, vpc, urls, head_of, future_result, url_statuses, verified_text>>

\* A free worker starts a submitted check and leaves it in the queue.
StartCheckKeepQueued(u) ==
  /\ vpc = "pool"
  /\ u \in work_queue
  /\ Cardinality(running) < max_workers
  /\ check_calls[u] < 2
  /\ running' = running \cup {u}
  /\ check_calls' = [check_calls EXCEPT ![u] = @ + 1]
  /\ UNCHANGED <<text, vpc, urls, head_of, work_queue, future_result, url_statuses,
                 verified_text>>

\* A free worker of the pool takes a submitted check.
StartCheck(u) ==
  /\ vpc = "pool"
  /\ u \in work_queue
  /\ Cardinality(running) < max_workers
  /\ work_queue' = work_queue \ {u}
  /\ running' = running \cup {u}
  /\ check_calls' = [check_calls EXCEPT ![u] = @ + 1]
  /\ UNCHANGED <<text, vpc, urls, head_of, future_result, url_statuses, verified_text>>

\* check_url_status(u) ends; its future is completed.
FinishCheck(u) ==
  /\ vpc = "pool"
  /\ u \in running
  /\ running' = running \ {u}
  /\ future_result' = (u :> check_url_status(head_of[u])) @@ future_result
  /\ UNCHANGED <<text, vpc, urls, head_of, work_queue, url_statuses, check_calls,
                 verified_text>>

StatusKeys == {url_statuses[i][1] : i \in 1..Len(url_statuses)}

\* Lines 344-350: as_completed yields a completed future; its glyph is stored.
Collect(u) ==
  /\ vpc = "pool"
  /\ u \in DOMAIN future_result
  /\ u \notin StatusKeys
  /\ url_statuses' = Append(url_statuses, <<u, StatusGlyph(future_result[u])>>)
  /\ UNCHANGED <<text, vpc, urls, head_of, work_queue, running, future_result,
                 check_calls, verified_text>>

\* Lines 352-355: every future was yielded; the executor is shut down, the text
\* is rewritten in the order of url_statuses and returned.
RewriteAndReturn ==
  /\ vpc = "pool"
  /\ StatusKeys = SeqToSet(urls)
  /\ verified_text' = RewriteAll(verified_text, url_statuses)
  /\ vpc' = "done"
  /\ UNCHANGED <<text, urls, head_of, work_queue, running, future_result,
                 url_statuses, check_calls>>

AnnotNext ==
  \/ VerifyCall
  \/ \E u \in work_queue : StartCheck(u)
  \/ \E u \in running : FinishCheck(u)
  \/ \E u \in DOMAIN future_result : Collect(u)
  \/ RewriteAndReturn


\* ------------------------------------------------------------------ LinkAnnotator: properties
\* The start positions of the occurrences of p in s.
Occurrences(s, p) == {i \in 1..Len(s) : StartsWith(SeqDrop(s, i - 1), p)}
CountOcc(s, p) == Cardinality(Occurrences(s, p))
IsSubstring(p, s) == Occurrences(s, p) # {}
GlyphCount(s) == Cardinality({i \in 1..Len(s) : s[i] \in Glyphs})

\* The orders in which the items of a dict of statuses can have been inserted.
Orders(statuses) ==
  {p \in [1..Len(statuses) -> SeqToSet(statuses)] : SeqToSet(p) = SeqToSet(statuses)}

\* Some extracted URL occurs inside another extracted URL.
OverlappingUrls ==
  \E u, v \in SeqToSet(urls) : u # v /\ IsSubstring(u, v)

\* C1: with the outcome of every URL's check fixed, the text returned by
\* verify_links_in_text is the same whatever the order in which the checks
\* complete: rewriting in any other insertion order of url_statuses gives the
\* text that was returned.
C1_OrderIndependent ==
  (vpc = "done" /\ urls # <<>>) =>
    \A p \in Orders(url_statuses) : RewriteAll(text, p) = verified_text

\* C2: in the returned text every occurrence in the input of every extracted
\* URL is followed by a space and the URL's own glyph, once per occurrence: a URL
\* that occurs N times in the input occurs N times annotated in the output, and
\* the output holds no glyph besides these.
C2_EveryOccurrenceAnnotated ==
  (vpc = "done" /\ urls # <<>>) =>
    /\ \A i \in 1..Len(url_statuses) :
         CountOcc(verified_text,
                  url_statuses[i][1] \o <<" ", url_statuses[i][2]>>)
           = CountOcc(text, url_statuses[i][1])
    /\ GlyphCount(verified_text) = Len(urls)

\* C1 and C2 on the passes whose URLs do not occur inside one another.
C1_WhenDisjoint == ~OverlappingUrls => C1_OrderIndependent
C2_WhenDisjoint == ~OverlappingUrls => C2_EveryOccurrenceAnnotated

\* The pattern matches somewhere in t: a scheme directly followed by a URL character.
HasUrlMatch(t) ==
  \E i \in 1..(Len(t) - 1) : t[i] \in Schemes /\ IsUrlChar(t[i + 1])

NoCheckDispatched ==
  /\ DOMAIN check_calls = {}
  /\ work_queue = {}
  /\ running = {}
  /\ DOMAIN future_result = {}
  /\ url_statuses = <<>>

\* C10: for a text in which the URL pattern matches nowhere, no check is ever
\* dispatched and the returned text is the input; for an empty or absent input
\* the returned text is the empty string.
C10_NoUrlUnchanged ==
  ~HasUrlMatch(text) =>
    /\ NoCheckDispatched
    /\ vpc = "done" => verified_text = (IF Truthy(text) THEN text ELSE EmptyStr)

\* A returned pass over a non-empty text that holds a scheme but no URL.
C10_Witness ==
  /\ vpc = "done"
  /\ Truthy(text)
  /\ \E i \in 1..Len(text) : text[i] \in Schemes
  /\ ~HasUrlMatch(text)
  /\ verified_text = text

\* ------------------------------------------------------------------ LinkChecker as a function
VARIABLES
  head_response,  \* what the HEAD request of the call under test does
  check_result,   \* outcome of check_url_status
  cpc             \* "call" before the call, "done" after it, "idle" when unused

cvars == <<head_response, check_result, cpc>>

StatusCodes == MinStatus..MaxStatus
CheckHeads == {Resp(c) : c \in StatusCodes} \cup {HeadRequestException, HeadOtherException}

CheckInit ==
  /\ head_response \in CheckHeads
  /\ check_result = Returned(FALSE)
  /\ cpc = "call"

CheckIdle ==
  /\ head_response = HeadRequestException
  /\ check_result = Returned(FALSE)
  /\ cpc = "idle"

CheckUrl ==
  /\ cpc = "call"
  /\ check_result' = check_url_status(head_response)
  /\ cpc' = "done"
  /\ UNCHANGED head_response

\* ------------------------------------------------------------------ LLMGateway
\* The classes an exception raised by client.chat.completions.create is an
\* instance of (openai's hierarchy, as imported on line 7).
Bases(cls) ==
  CASE cls = "APITimeoutError" ->
         {"APITimeoutError", "APIConnectionError", "APIError", "Exception"}
    [] cls = "APIConnectionError" -> {"APIConnectionError", "APIError", "Exception"}
    [] cls = "RateLimitError" ->
         {"RateLimitError", "APIStatusError", "APIError", "Exception"}
    [] cls = "APIStatusError" -> {"APIStatusError", "APIError", "Exception"}
    [] OTHER -> {cls, "Exception"}

IsInstance(cls, base) == base \in Bases(cls)

\* Only the status errors carry the attribute status_code.
HasStatusCode(cls) == IsInstance(cls, "APIStatusError")

Completion(c) == [kind |-> "completion", cls |-> "", content |-> c, status_code |-> 0]
EmptyChoices == [kind |-> "empty_choices", cls |-> "", content |-> None, status_code |-> 0]
ApiRaise(cls, code) == [kind |-> "raise", cls |-> cls, content |-> None, status_code |-> code]

\* What one call of the client can do, when its successful answers carry a
\* content out of `contents`.
ApiOutcomes(contents, codes) ==
  {Completion(c) : c \in contents \cup {None, EmptyStr}}
    \cup {EmptyChoices}
    \cup {ApiRaise(cls, 0) : cls \in {"APITimeoutError", "APIConnectionError", "Exception"}}
    \cup {ApiRaise("RateLimitError", 429)}
    \cup {ApiRaise("APIStatusError", c) : c \in codes}

\* The st.error message of each handler of openrouter_chat, by failure kind.
FailureKinds == {"MalformedResponse", "Timeout", "RateLimited", "ServiceError", "Unknown"}

ChatReturn(v, err, code) == [raised |-> FALSE, exc |-> "", value |-> v, error |-> err, shown_code |-> code]
ChatRaise(exc) == [raised |-> TRUE, exc |-> exc, value |-> None, error |-> "", shown_code |-> 0]

\* The except clauses of openrouter_chat, tried in source order, for an
\* exception of class cls raised in the try block.
ChatExcept(cls, code) ==
  IF IsInstance(cls, "APITimeoutError") THEN ChatReturn(None, "Timeout", 0)
  ELSE IF IsInstance(cls, "RateLimitError") THEN ChatReturn(None, "RateLimited", 0)
  ELSE IF IsInstance(cls, "APIError")
       THEN IF HasStatusCode(cls)
            THEN ChatReturn(None, "ServiceError", code)
            ELSE ChatRaise("AttributeError")   \* e.status_code, line 167
       ELSE ChatReturn(None, "Unknown", 0)

\* openrouter_chat(model, messages, temperature), given what the client does.
openrouter_chat(o) ==
  IF o.kind = "completion"
  THEN IF o.content = None
       THEN ChatReturn(None, "MalformedResponse", 0)
       ELSE ChatReturn(o.content, "", 0)
  ELSE IF o.kind = "empty_choices"
       THEN ChatExcept("IndexError", 0)        \* completion.choices[0], line 153
       ELSE ChatExcept(o.cls, o.status_code)

VARIABLES
  api_outcome,    \* what the client does in the call under test
  chat_result,    \* outcome of openrouter_chat
  gpc             \* "call" before the call, "done" after it, "idle" when unused

gvars == <<api_outcome, chat_result, gpc>>

GatewayContents == {<<"R1">>, <<"R2", "R2">>}

GatewayInit ==
  /\ api_outcome \in ApiOutcomes(GatewayContents, StatusCodes)
  /\ chat_result = ChatReturn(None, "", 0)
  /\ gpc = "call"

GatewayIdle ==
  /\ api_outcome = EmptyChoices
  /\ chat_result = ChatReturn(None, "", 0)
  /\ gpc = "idle"

GatewayCall ==
  /\ gpc = "call"
  /\ chat_result' = openrouter_chat(api_outcome)
  /\ gpc' = "done"
  /\ UNCHANGED api_outcome

\* ------------------------------------------------------------------ ResultStore
Topics == {"T1", "T2"}
ResultTexts == GatewayContents
Sessions == {"s1", "s2"}

\* {"perplexity_result": r}
Record(r) == [perplexity_result |-> r]

\* A Python dict: the list of its (key, value) items in insertion order.
Keys(d) == {d[i][1] : i \in 1..Len(d)}
DictGet(d, k) == d[CHOOSE i \in 1..Len(d) : d[i][1] = k][2]

\* d[k] = v, by a dict that keeps the value it already holds for k.
DictSetDefault(d, k, v) ==
  IF k \in Keys(d) THEN d ELSE Append(d, <<k, v>>)

\* d[k] = v: overwrite in place, or insert at the end.
DictSet(d, k, v) ==
  IF k \in Keys(d)
  THEN [i \in 1..Len(d) |-> IF d[i][1] = k THEN <<k, v>> ELSE d[i]]
  ELSE Append(d, <<k, v>>)

\* The content of research_results.json: absent, bytes that are no UTF-8, text
\* that is no JSON (an empty or cut-off file too), a JSON array, or a JSON
\* object given by its members in document order.
Doc(kind, entries) == [kind |-> kind, entries |-> entries]
Missing == Doc("missing", <<>>)
NotUtf8 == Doc("not_utf8", <<>>)
NotJson == Doc("not_json", <<>>)
JsonArray == Doc("json_array", <<>>)
JsonObject(entries) == Doc("json_object", entries)

\* json.load of an object: members are inserted left to right, so a repeated
\* name keeps its first position and its last value.
RECURSIVE DictFromPairs(_)
DictFromPairs(pairs) ==
  IF pairs = <<>> THEN <<>>
  ELSE DictSet(DictFromPairs(SeqTake(pairs, Len(pairs) - 1)),
               pairs[Len(pairs)][1], pairs[Len(pairs)][2])

LoadReturn(type, items) == [raised |-> FALSE, exc |-> "", type |-> type, items |-> items]
LoadRaise(exc) == [raised |-> TRUE, exc |-> exc, type |-> "", items |-> <<>>]

\* load_stored_data(), given the content of the file.
load_stored_data(doc) ==
  IF doc.kind # "missing"                            \* os.path.exists
  THEN CASE doc.kind = "not_utf8" -> LoadRaise("UnicodeDecodeError")  \* f.read()
         [] doc.kind = "not_json" -> LoadReturn("dict", <<>>)         \* JSONDecodeError
         [] doc.kind = "json_array" -> LoadReturn("list", <<>>)
         [] OTHER -> LoadReturn("dict", DictFromPairs(doc.entries))
  ELSE LoadReturn("dict", <<>>)

\* json.dump(data, f, ensure_ascii=False, indent=2) into a file opened with
\* encoding="utf-8": the text of the dict; when a result cannot be encoded, the
\* write raises UnicodeEncodeError and what was written before it stays.
DumpRaises(d) == \E i \in 1..Len(d) : ~Encodable(d[i][2].perplexity_result)
json_dump(d) == IF DumpRaises(d) THEN NotJson ELSE JsonObject(d)

\* Length of the members of a written document: per member its name, the units
\* of its result and the same punctuation.
RECURSIVE MembersSize(_)
MembersSize(entries) ==
  IF entries = <<>> THEN 0
  ELSE 2 + Len(Head(entries)[2].perplexity_result) + MembersSize(Tail(entries))

\* Length of the file's content beyond the braces every object has; an opened
\* file is empty until somebody writes.
DocSize(doc) == IF doc.kind = "json_object" THEN 1 + MembersSize(doc.entries) ELSE 0

\* The file after the text of new is written at offset 0 by a handle opened
\* before cur was written: new replaces cur when it is at least as long;
\* otherwise the end of cur stays behind new's closing brace, and the content
\* is no JSON text.
WriteAtStart(cur, new) == IF DocSize(cur) > DocSize(new) THEN NotJson ELSE new

\* The results a document or a caller of save_result can hold.
StoreTexts == ResultTexts \cup {<<Surrogate>>}

Entries == Topics \X {Record(r) : r \in StoreTexts}
\* Objects with at most n members; a name may repeat.
ObjectDocs(n) == {JsonObject(e) : e \in UNION {[1..k -> Entries] : k \in 0..n}}
\* Objects as json_dump writes them: no name repeats.
WrittenDocs(n) ==
  {d \in ObjectDocs(n) :
     Cardinality(Keys(d.entries)) = Len(d.entries) /\ ~DumpRaises(d.entries)}

VARIABLES
  storage_file,            \* content of research_results.json
  pc,                      \* session -> position of its script run
  topic_input,             \* session -> topic of the request or of save_result
  perplexity_result,       \* session -> result returned by search_with_perplexity
  data,                    \* session -> local dict of save_result
  research_result,         \* session -> st.session_state.research_result
  discovered_topics_text,  \* session -> st.session_state.discovered_topics_text
  topic_list,              \* session -> st.session_state.topic_list ("unset" or "[]")
  topics_text,             \* session -> what discover_topics returned in this run
  script_topic,            \* session -> topic passed to generate_video_script
  final_summary,           \* session -> summary passed to generate_video_script
  research_ok,             \* <<topic, result>> of every research call that succeeded
  initial_doc,             \* the file content at the start
  last_upsert,             \* topic -> result of its last completed save_result, and their number
  loaded,                  \* what the last load_stored_data call of a client returned
  stored_data,             \* session -> the global stored_data of its script run (line 139)
  dump_failed              \* some json.dump of save_result has raised

fvars == <<storage_file, pc, topic_input, perplexity_result, data, research_result,
           discovered_topics_text, topic_list, topics_text, script_topic,
           final_summary, research_ok, initial_doc, last_upsert, loaded, stored_data,
           dump_failed>>

vars == <<avars, cvars, gvars, fvars>>

tab1vars == <<discovered_topics_text, topic_list, topics_text>>
tab3vars == <<script_topic, final_summary>>
storehist == <<initial_doc, last_upsert, loaded, dump_failed>>

\* Positions at which a script run has shown its last message and is about to
\* end: the st.info, st.success, st.error or st.warning of a handler, or the
\* traceback of an uncaught exception.
Shown ==
  {"cache_info", "research_success", "research_error", "script_success",
   "script_error", "script_warning", "discover_success", "discover_error",
   "discover_warning", "exception"}

FlowInitWith(docs, keep_initial) ==
  /\ storage_file \in docs
  /\ pc = [s \in Sessions |-> "idle"]
  /\ topic_input = [s \in Sessions |-> ""]
  /\ perplexity_result = [s \in Sessions |-> None]
  /\ data = [s \in Sessions |-> <<>>]
  /\ research_result = [s \in Sessions |-> EmptyMap]
  /\ discovered_topics_text = [s \in Sessions |-> EmptyStr]
  /\ topic_list = [s \in Sessions |-> "unset"]
  /\ topics_text = [s \in Sessions |-> None]
  /\ script_topic = [s \in Sessions |-> ""]
  /\ final_summary = [s \in Sessions |-> None]
  /\ research_ok = {<<storage_file.entries[i][1], storage_file.entries[i][2].perplexity_result>> :
                      i \in 1..Len(storage_file.entries)}
  /\ initial_doc = (IF keep_initial THEN storage_file ELSE Missing)
  /\ last_upsert = EmptyMap
  /\ loaded = LoadReturn("dict", <<>>)
  /\ stored_data = [s \in Sessions |-> LoadReturn("dict", <<>>)]
  /\ dump_failed = FALSE

Goto(s, label) == pc' = [pc EXCEPT ![s] = label]

\* save_result, line 132-135: data = load_stored_data(); data[topic] = {...}
SaveLoad(s) ==
  /\ pc[s] = "save_result"
  /\ LET ld == load_stored_data(storage_file) IN
       IF ld.raised \/ ld.type # "dict"       \* a list takes no str index: TypeError
       THEN Goto(s, "exception") /\ UNCHANGED data
       ELSE /\ data' = [data EXCEPT ![s] =
                          DictSet(ld.items, topic_input[s], Record(perplexity_result[s]))]
            /\ Goto(s, "save_open")
  /\ UNCHANGED <<storage_file, topic_input, perplexity_result, research_result,
                 tab1vars, tab3vars, research_ok, storehist, stored_data>>

\* save_result, line 136: open(storage_file, "w") empties the file.
SaveOpen(s) ==
  /\ pc[s] = "save_open"
  /\ storage_file' = NotJson
  /\ Goto(s, "save_dump")
  /\ UNCHANGED <<topic_input, perplexity_result, data, research_result,
                 tab1vars, tab3vars, research_ok, storehist, stored_data>>

\* save_result, line 137: the whole dict is written through the handle of
\* line 136, from offset 0, and the call returns, or the write raises.
SaveDump(s, return_to) ==
  /\ pc[s] = "save_dump"
  /\ storage_file' = WriteAtStart(storage_file, json_dump(data[s]))
  /\ Goto(s, IF DumpRaises(data[s]) THEN "exception" ELSE return_to)
  /\ dump_failed' = (dump_failed \/ DumpRaises(data[s]))
  /\ data' = [data EXCEPT ![s] = <<>>]
  /\ UNCHANGED <<topic_input, perplexity_result, tab1vars, tab3vars, research_ok,
                 initial_doc, loaded, stored_data>>

\* Line 139: an interaction of session s starts a script run, which loads the
\* store into its global stored_data; an exception of the load ends the run.
RunStart(s) ==
  /\ pc[s] = "idle"
  /\ LET ld == load_stored_data(storage_file) IN
       IF ld.raised
       THEN Goto(s, "exception") /\ UNCHANGED stored_data
       ELSE Goto(s, "run") /\ stored_data' = [stored_data EXCEPT ![s] = ld]
  /\ UNCHANGED <<storage_file, topic_input, perplexity_result, data, research_result,
                 tab1vars, tab3vars, research_ok, storehist>>

\* The script run of session s ends; its locals are gone.
RunEnd(s) ==
  /\ pc[s] \in Shown
  /\ Goto(s, "idle")
  /\ topic_input' = [topic_input EXCEPT ![s] = ""]
  /\ perplexity_result' = [perplexity_result EXCEPT ![s] = None]
  /\ data' = [data EXCEPT ![s] = <<>>]
  /\ topics_text' = [topics_text EXCEPT ![s] = None]
  /\ script_topic' = [script_topic EXCEPT ![s] = ""]
  /\ final_summary' = [final_summary EXCEPT ![s] = None]
  /\ stored_data' = [stored_data EXCEPT ![s] = LoadReturn("dict", <<>>)]
  /\ UNCHANGED <<storage_file, research_result, discovered_topics_text, topic_list,
                 research_ok, storehist>>

\* ------------------------------------------------------------------ ResultStore driven by one client
\* The single writer.
Client == "s1"

StoreDocs == {Missing, NotUtf8, NotJson, JsonArray} \cup ObjectDocs(MaxDocEntries)

UpsertCount(t) == IF t \in DOMAIN last_upsert THEN last_upsert[t].count ELSE 0

\* save_result(t, r) is called.
SaveResultCall(s, t, r) ==
  /\ pc[s] = "idle"
  /\ UpsertCount(t) < MaxUpserts
  /\ topic_input' = [topic_input EXCEPT ![s] = t]
  /\ perplexity_result' = [perplexity_result EXCEPT ![s] = r]
  /\ Goto(s, "save_result")
  /\ UNCHANGED <<storage_file, data, research_result, tab1vars, tab3vars,
                 research_ok, storehist, stored_data>>

\* save_result returns to the client.
SaveReturn(s) ==
  /\ SaveDump(s, "saved")
  /\ last_upsert' = IF DumpRaises(data[s]) THEN last_upsert
                    ELSE (topic_input[s] :> [result |-> perplexity_result[s],
                                             count |-> UpsertCount(topic_input[s]) + 1])
                           @@ last_upsert
  /\ UNCHANGED research_result

\* The client goes on after a call of the store returned or raised.
CallDone(s) ==
  /\ pc[s] \in {"saved", "loaded", "exception"}
  /\ Goto(s, "idle")
  /\ topic_input' = [topic_input EXCEPT ![s] = ""]
  /\ perplexity_result' = [perplexity_result EXCEPT ![s] = None]
  /\ UNCHANGED <<storage_file, data, research_result, tab1vars, tab3vars,
                 research_ok, storehist, stored_data>>

\* load_stored_data() is called by the client and returns or raises.
LoadAll(s) ==
  /\ pc[s] = "idle"
  /\ loaded' = load_stored_data(storage_file)
  /\ Goto(s, "loaded")
  /\ UNCHANGED <<storage_file, topic_input, perplexity_result, data,
                 research_result, tab1vars, tab3vars, research_ok, initial_doc,
                 last_upsert, stored_data, dump_failed>>

AnnotIdle ==
  /\ text = None
  /\ vpc = "idle"
  /\ urls = <<>>
  /\ head_of = EmptyMap
  /\ work_queue = {}
  /\ running = {}
  /\ future_result = EmptyMap
  /\ url_statuses = <<>>
  /\ check_calls = EmptyMap
  /\ verified_text = EmptyStr

FlowIdle == FlowInitWith({Missing}, FALSE)

StoreInit == FlowInitWith(StoreDocs, TRUE) /\ AnnotIdle /\ CheckIdle /\ GatewayIdle

StoreNext ==
  /\ \/ \E t \in Topics, r \in StoreTexts : SaveResultCall(Client, t, r)
     \/ SaveLoad(Client)
     \/ SaveOpen(Client)
     \/ SaveReturn(Client)
     \/ CallDone(Client)
     \/ LoadAll(Client)
  /\ UNCHANGED <<avars, cvars, gvars>>

SpecStore == StoreInit /\ [][StoreNext]_vars

\* ------------------------------------------------------------------ the three tabs
\* The possible return values of verify_links_in_text(t): one for every glyph
\* of every URL and every order in which the checks complete.
StatusLists(U) ==
  {p \in [1..Cardinality(U) -> U \X Glyphs] : {p[i][1] : i \in 1..Cardinality(U)} = U}

VerifyOutputs(t) ==
  IF ~Truthy(t) THEN {EmptyStr}
  ELSE IF FindAll(t) = <<>> THEN {t}
       ELSE {RewriteAll(t, st) : st \in StatusLists(SeqToSet(FindAll(t)))}

\* What discover_topics' model answers with.
DiscoverTexts == {<<"a">>, <<"b">>, <<"http://", "a">>}
\* final_field of tab 1: empty when "other" was chosen and nothing typed.
Fields == {EmptyStr, <<"AI">>}
\* One status error stands for them all in the tabs.
TabCodes == {500}

\* topic_input in stored_data, for the dict or list that was loaded.
Contains(ld, t) == ld.type = "dict" /\ t \in Keys(ld.items)

\* Tab 1, lines 408-420: the run finds the button pressed with final_field = f.
Tab1Click(s, f) ==
  /\ pc[s] = "run"
  /\ IF f = EmptyStr
     THEN Goto(s, "discover_warning")
     ELSE Goto(s, "discover")
  /\ UNCHANGED <<storage_file, topic_input, perplexity_result, data, research_result,
                 tab1vars, tab3vars, research_ok, storehist, stored_data>>

\* Tab 1, lines 422-429: discover_topics returns.
DiscoverReturn(s, o) ==
  /\ pc[s] = "discover"
  /\ LET r == openrouter_chat(o) IN
       IF r.raised
       THEN Goto(s, "exception") /\ UNCHANGED tab1vars
       ELSE /\ topics_text' = [topics_text EXCEPT ![s] = r.value]
            /\ IF Truthy(r.value)
               THEN /\ \E out \in VerifyOutputs(r.value) :
                         discovered_topics_text' =
                           [discovered_topics_text EXCEPT ![s] = out]
                    /\ Goto(s, "discover_success")
                    /\ UNCHANGED topic_list
               ELSE /\ topic_list' = [topic_list EXCEPT ![s] = "[]"]
                    /\ Goto(s, "discover_error")
                    /\ UNCHANGED discovered_topics_text
  /\ UNCHANGED <<storage_file, topic_input, perplexity_result, data, research_result,
                 tab3vars, research_ok, storehist, stored_data>>

\* Tab 2, lines 451-458: the run finds the button pressed for topic t.
Tab2Click(s, t) ==
  /\ pc[s] = "run"
  /\ topic_input' = [topic_input EXCEPT ![s] = t]
  /\ IF Contains(stored_data[s], t)
     THEN /\ research_result' = [research_result EXCEPT ![s] =
                (t :> DictGet(stored_data[s].items, t).perplexity_result) @@ @]
          /\ Goto(s, "cache_info")
     ELSE /\ Goto(s, "research")
          /\ UNCHANGED research_result
  /\ UNCHANGED <<storage_file, perplexity_result, data, tab1vars, tab3vars,
                 research_ok, storehist, stored_data>>

\* "if v:" with "if v is not None:" in its place.
IsNotNone(v) == v # None

\* "if v:" for the str or None that a flow function returns.
ResultPresent(v) == Truthy(v)

\* Tab 2, lines 459-465: search_with_perplexity returns.
ResearchReturn(s, o) ==
  /\ pc[s] = "research"
  /\ LET r == openrouter_chat(o) IN
       IF r.raised
       THEN Goto(s, "exception") /\ UNCHANGED <<perplexity_result, research_ok>>
       ELSE /\ perplexity_result' = [perplexity_result EXCEPT ![s] = r.value]
            /\ research_ok' = IF Truthy(r.value)
                              THEN research_ok \cup {<<topic_input[s], r.value>>}
                              ELSE research_ok
            /\ IF ResultPresent(r.value)             \* if perplexity_result:
               THEN Goto(s, "save_result")
               ELSE Goto(s, "research_error")
  /\ UNCHANGED <<storage_file, topic_input, data, research_result, tab1vars,
                 tab3vars, storehist, stored_data>>

\* Tab 2, lines 461-463: save_result returns, the result enters the session.
ResearchSaved(s) ==
  /\ SaveDump(s, "research_success")
  /\ research_result' = IF DumpRaises(data[s]) THEN research_result
                        ELSE [research_result EXCEPT ![s] =
                                (topic_input[s] :> perplexity_result[s]) @@ @]
  /\ UNCHANGED last_upsert

\* Tab 3, lines 482-495: the run finds the button pressed with topic t selected.
Tab3Click(s, t) ==
  /\ pc[s] = "run"
  /\ IF stored_data[s].type # "dict"                 \* a list has no keys()
     THEN Goto(s, "exception") /\ UNCHANGED tab3vars
     ELSE IF stored_data[s].items = <<>>
          THEN Goto(s, "script_warning") /\ UNCHANGED tab3vars
          ELSE /\ t \in Keys(stored_data[s].items)
               /\ script_topic' = [script_topic EXCEPT ![s] = t]
               /\ final_summary' = [final_summary EXCEPT ![s] =
                                      DictGet(stored_data[s].items, t).perplexity_result]
               /\ Goto(s, "script")
  /\ UNCHANGED <<storage_file, topic_input, perplexity_result, data, research_result,
                 tab1vars, research_ok, storehist, stored_data>>

\* Tab 3, lines 496-502: generate_video_script returns.
ScriptReturn(s, o) ==
  /\ pc[s] = "script"
  /\ LET r == openrouter_chat(o) IN
       IF r.raised THEN Goto(s, "exception")
       ELSE IF Truthy(r.value) THEN Goto(s, "script_success")
            ELSE Goto(s, "script_error")
  /\ UNCHANGED <<storage_file, topic_input, perplexity_result, data, research_result,
                 tab1vars, tab3vars, research_ok, storehist, stored_data>>

\* The file as the program finds it at its start: absent, unreadable, or an
\* object an earlier run wrote.
InitDocs == {Missing, NotUtf8, NotJson, JsonArray} \cup WrittenDocs(MaxInitEntries)

Init == FlowInitWith(InitDocs, FALSE) /\ AnnotIdle /\ CheckIdle /\ GatewayIdle

\* Tabs 2 and 3 of every session: the handlers that share the store.
Next ==
  /\ \E s \in Sessions :
       \/ RunStart(s)
       \/ \E t \in Topics : Tab2Click(s, t)
       \/ \E o \in ApiOutcomes(ResultTexts, TabCodes) : ResearchReturn(s, o)
       \/ SaveLoad(s)
       \/ SaveOpen(s)
       \/ ResearchSaved(s)
       \/ \E t \in Topics : Tab3Click(s, t)
       \/ \E o \in ApiOutcomes(ResultTexts, TabCodes) : ScriptReturn(s, o)
       \/ RunEnd(s)
  /\ UNCHANGED <<avars, cvars, gvars>>

Spec == Init /\ [][Next]_vars

\* Tab 1 of one session: it reads and writes session state no other tab uses.
Tab1Next ==
  /\ \/ RunStart(Client)
     \/ \E f \in Fields : Tab1Click(Client, f)
     \/ \E o \in ApiOutcomes(DiscoverTexts, TabCodes) : DiscoverReturn(Client, o)
     \/ RunEnd(Client)
  /\ UNCHANGED <<avars, cvars, gvars>>

SpecTab1 == Init /\ [][Tab1Next]_vars

\* The annotator alone, on every text of the alphabet.
AnnotSpecInit == AnnotInit /\ CheckIdle /\ GatewayIdle /\ FlowIdle

AnnotSpecNext == AnnotNext /\ UNCHANGED <<cvars, gvars, fvars>>

SpecAnnot == AnnotSpecInit /\ [][AnnotSpecNext]_vars

\* check_url_status alone, on every outcome of the HEAD request.
CheckSpecInit == CheckInit /\ AnnotIdle /\ GatewayIdle /\ FlowIdle

CheckSpecNext == CheckUrl /\ UNCHANGED <<avars, gvars, fvars>>

SpecCheck == CheckSpecInit /\ [][CheckSpecNext]_vars

\* openrouter_chat alone, on every outcome of the client's call.
GatewaySpecInit == GatewayInit /\ AnnotIdle /\ CheckIdle /\ FlowIdle

GatewaySpecNext == GatewayCall /\ UNCHANGED <<avars, cvars, fvars>>

SpecGateway == GatewaySpecInit /\ [][GatewaySpecNext]_vars

\* The function used for tab 1 returns what the annotator's pass returns.
VerifyOutputsCoverPass == vpc = "done" => verified_text \in VerifyOutputs(text)

\* ------------------------------------------------------------------ ResultStore: properties
\* The start document is absent or an object of records.
ValidStart == initial_doc.kind \in {"missing", "json_object"}

\* C3: from a missing or valid document and with one writer, whenever no call
\* is under way load_stored_data returns a dict, one key per topic: the keys the
\* document started with and the topics upserted, each upserted topic with the
\* record of its latest upsert and every other key with the record it started with.
C3_UpsertOverwrites ==
  (ValidStart /\ pc[Client] = "idle") =>
    LET now == load_stored_data(storage_file)
        start == load_stored_data(initial_doc).items
    IN /\ ~now.raised
       /\ now.type = "dict"
       /\ Len(now.items) = Cardinality(Keys(now.items))
       /\ Keys(now.items) = Keys(start) \cup DOMAIN last_upsert
       /\ \A t \in Keys(now.items) :
            DictGet(now.items, t) =
              (IF t \in DOMAIN last_upsert THEN Record(last_upsert[t].result)
               ELSE DictGet(start, t))

\* C3 as long as no json.dump has raised.
C3_OnEncodableText == ~dump_failed => C3_UpsertOverwrites

\* T1 was upserted twice, last with R2, next to an untouched record of T2.
C3_Witness ==
  /\ pc[Client] = "idle"
  /\ initial_doc = JsonObject(<< <<"T2", Record(<<"R1">>)>> >>)
  /\ "T1" \in DOMAIN last_upsert
  /\ last_upsert["T1"] = [result |-> <<"R2", "R2">>, count |-> 2]
  /\ load_stored_data(storage_file).items =
       << <<"T2", Record(<<"R1">>)>>, <<"T1", Record(<<"R2", "R2">>)>> >>

\* C6: load_stored_data never raises and returns a dict; the empty dict when
\* the file is missing or its content is no valid JSON text; for a file holding
\* JSON, a dict from topics to records.
C6_LoadAllTotal ==
  pc[Client] = "loaded" =>
    /\ ~loaded.raised
    /\ loaded.type = "dict"
    /\ storage_file.kind \in {"missing", "not_utf8", "not_json"} => loaded.items = <<>>
    /\ \A i \in 1..Len(loaded.items) :
         loaded.items[i] \in Topics \X {Record(r) : r \in StoreTexts}

\* C6 for the documents that are missing, are no JSON text, or are JSON objects.
C6_OnTextDocuments ==
  storage_file.kind \in {"missing", "not_json", "json_object"} => C6_LoadAllTotal

\* ------------------------------------------------------------------ LLMGateway: properties
\* C7: openrouter_chat never raises; it ends with the generated text or with
\* exactly one failure kind; a rate limit, a status error and an answer without
\* content end with three different kinds (three different messages).
C7_GatewayTotal ==
  gpc = "done" =>
    /\ ~chat_result.raised
    /\ (chat_result.value # None /\ chat_result.error = "")
         \/ (chat_result.value = None /\ chat_result.error \in FailureKinds)
    /\ api_outcome.cls = "RateLimitError" => chat_result.error = "RateLimited"
    /\ api_outcome.cls = "APIStatusError" => chat_result.error = "ServiceError"
    /\ (api_outcome.kind = "completion" /\ api_outcome.content = None)
         => chat_result.error = "MalformedResponse"

\* C7 for every outcome but a connection error that is no timeout.
C7_ExceptConnectionError ==
  api_outcome.cls # "APIConnectionError" => C7_GatewayTotal

\* ------------------------------------------------------------------ LinkChecker: properties
ReachableStatus(head) ==
  head.kind = "response" /\ 200 <= head.status_code /\ head.status_code < 400

\* C8 as claimed: check_url_status returns true exactly for a status code in
\* [200, 400), false for every other code and every failure, and never raises.
C8_NeverRaises ==
  cpc = "done" =>
    /\ ~check_result.raised
    /\ check_result.value <=> ReachableStatus(head_response)

\* C8 as amended: check_url_status returns true exactly for a status code in
\* [200, 400); false for every other code and for a failure raised as a
\* requests.RequestException; an exception of any other class is not caught and
\* leaves check_url_status.
C8_CheckClassifies ==
  cpc = "done" =>
    /\ check_result.raised <=> head_response.kind = "Exception"
    /\ ~check_result.raised => (check_result.value <=> ReachableStatus(head_response))

\* The call answered 399 and was classified reachable.
C8_Witness ==
  /\ cpc = "done"
  /\ head_response = Resp(399)
  /\ check_result = Returned(TRUE)

\* ------------------------------------------------------------------ the tabs: properties
StoreKeys == Keys(load_stored_data(storage_file).items)

\* C4: when the research call of a request ends without a result (it returned
\* None or "", or raised), the run goes to its error message or ends with the
\* exception, and neither that step nor the end of the run changes the file or
\* the session's research_result.
C4_FailedResearchWritesNothing ==
  [][\A s \in Sessions :
       /\ (pc[s] = "research" /\ pc'[s] # "research" /\ ~Truthy(perplexity_result'[s]))
            => /\ pc'[s] \in {"research_error", "exception"}
               /\ storage_file' = storage_file
               /\ research_result' = research_result
       /\ (pc[s] = "research_error" /\ pc'[s] # "research_error")
            => /\ pc'[s] = "idle"
               /\ storage_file' = storage_file
               /\ research_result' = research_result]_vars

\* A request for a topic the store lacks has failed; the topic is in neither
\* the store nor the session.
C4_Witness ==
  \E s \in Sessions :
    /\ pc[s] = "research_error"
    /\ topic_input[s] \in Topics
    /\ topic_input[s] \notin StoreKeys
    /\ topic_input[s] \notin DOMAIN research_result[s]

StoreHoldsScriptTopic ==
  \A s \in Sessions : pc[s] = "script" => script_topic[s] \in StoreKeys

\* C9: after every invocation of discover_topics, discovered_topics_text is
\* what that invocation produced: the annotated text when it returned one, and
\* nothing when it returned none.
C9_DiscoveryReplaces ==
  \A s \in Sessions :
    /\ pc[s] = "discover_success" =>
         discovered_topics_text[s] \in VerifyOutputs(topics_text[s])
    /\ pc[s] = "discover_error" => discovered_topics_text[s] = EmptyStr

\* C9 for the invocations that return a text.
C9_OnSuccess ==
  \A s \in Sessions :
    pc[s] = "discover_success" =>
      discovered_topics_text[s] \in VerifyOutputs(topics_text[s])

\* ------------------------------------------------------------------ concurrent writers: properties
\* C11: with two sessions inside save_result the last writer wins: on the
\* step on which a session's json.dump ends, the file holds exactly the mapping
\* that session wrote (so the entry of a writer that wrote earlier from the same
\* loaded mapping is lost, and nothing else is).
C11_LastWriterWins ==
  [][\A s \in Sessions :
       (pc[s] = "save_dump" /\ pc'[s] # "save_dump") =>
         storage_file' = json_dump(data[s])]_vars

\* The lost update: both sessions have saved, each its own topic, and the
\* document is the last writer's mapping, without the other topic.
C11_LostUpdate ==
  /\ \A s \in Sessions : pc[s] = "research_success"
  /\ topic_input["s1"] # topic_input["s2"]
  /\ storage_file.kind = "json_object"
  /\ \E s \in Sessions : topic_input[s] \notin StoreKeys

\* Both sessions have saved and the file is no JSON text: nothing is read back.
C11_BothLost ==
  /\ \A s \in Sessions : pc[s] = "research_success"
  /\ storage_file = NotJson
  /\ StoreKeys = {}

\* ------------------------------------------------------------------ LinkAnnotator: isolation of the checks
\* The glyph that belongs to what the HEAD request of a URL did.
ExpectedGlyph(head) ==
  IF head.kind = "Exception" THEN GlyphError
  ELSE IF ReachableStatus(head) THEN GlyphValid ELSE GlyphInvalid

\* C12: when verify_links_in_text has returned from a pass with URLs, every
\* unique extracted URL has exactly one status, and it is the glyph of its own
\* check (valid for True, invalid for False, error for an exception), whatever
\* the checks of the other URLs did; no check is left queued or running.
C12_ChecksIsolated ==
  (vpc = "done" /\ urls # <<>>) =>
    /\ StatusKeys = SeqToSet(urls)
    /\ Len(url_statuses) = Cardinality(SeqToSet(urls))
    /\ \A i \in 1..Len(url_statuses) :
         url_statuses[i][2] = ExpectedGlyph(head_of[url_statuses[i][1]])
    /\ work_queue = {} /\ running = {}

\* A returned pass in which the check of one URL raised and was collected
\* first, and the check of another URL returned True.
C12_Witness ==
  /\ vpc = "done"
  /\ Len(url_statuses) = 2
  /\ head_of[url_statuses[1][1]] = HeadOtherException
  /\ url_statuses[1][2] = GlyphError
  /\ head_of[url_statuses[2][1]] = Resp(200)
  /\ url_statuses[2][2] = GlyphValid

\* ------------------------------------------------------------------ the cache of tab 2: properties
\* C13: a deep-research request for a topic of which the store holds a record
\* does not go to the gateway and does not write the file; it puts the stored
\* result into the session's research_result.  So search_with_perplexity is
\* called for a topic only when the store holds no record of it.
C13_CacheHitNoGateway ==
  [][\A s \in Sessions :
       (pc[s] = "run" /\ pc'[s] \in {"research", "cache_info"}) =>
         IF topic_input'[s] \in StoreKeys
         THEN /\ pc'[s] = "cache_info"
              /\ storage_file' = storage_file
              /\ research_result'[s][topic_input'[s]] =
                   DictGet(load_stored_data(storage_file).items,
                           topic_input'[s]).perplexity_result
         ELSE TRUE]_vars

\* C13 with the document the script run loaded at its start in the place of
\* the store.
C13_OnSnapshot ==
  [][\A s \in Sessions :
       (pc[s] = "run" /\ pc'[s] \in {"research", "cache_info"}) =>
         IF Contains(stored_data[s], topic_input'[s])
         THEN /\ pc'[s] = "cache_info"
              /\ storage_file' = storage_file
              /\ research_result'[s][topic_input'[s]] =
                   DictGet(stored_data[s].items, topic_input'[s]).perplexity_result
         ELSE pc'[s] = "research"]_vars

\* The gateway is being called for a topic of which the store holds a record.
C13_ResearchOfStoredTopic ==
  \E s \in Sessions : pc[s] = "research" /\ topic_input[s] \in StoreKeys

\* ------------------------------------------------------------------ LinkAnnotator with more URLs than workers
\* The k-th URL of a pool text, and the text of n URLs separated by blanks.
PoolUrl(k) == <<"http://">> \o [i \in 1..k |-> "a"]

RECURSIVE PoolText(_)
PoolText(n) ==
  IF n = 1 THEN PoolUrl(1) ELSE PoolText(n - 1) \o <<" ">> \o PoolUrl(n)

PoolInit ==
  /\ text \in {PoolText(n) : n \in 1..MaxPoolUrls}
  /\ vpc = "call"
  /\ urls = <<>>
  /\ head_of = EmptyMap
  /\ work_queue = {}
  /\ running = {}
  /\ future_result = EmptyMap
  /\ url_statuses = <<>>
  /\ check_calls = EmptyMap
  /\ verified_text = EmptyStr

\* The first URL of the text, in the order of urls, that is in S.
FirstOf(S) == urls[CHOOSE i \in 1..Len(urls) : urls[i] \in S /\ \A j \in 1..(i - 1) : urls[j] \notin S]

\* The pass over a pool text.  Every HEAD request of the pass does the same;
\* set(urls) is iterated, and so the work queue is filled, in the order of the
\* text; the workers finish in any order; the futures are collected in the order
\* of the text.
PoolNext ==
  \/ /\ vpc = "call"
     /\ head_of' \in {[u \in SeqToSet(FindAll(text)) |-> h] : h \in AnnotHeads}
     /\ VerifyCall
  \/ /\ work_queue # {}
     /\ StartCheck(FirstOf(work_queue))
  \/ \E u \in running : FinishCheck(u)
  \/ /\ SeqToSet(urls) \ StatusKeys # {}
     /\ Collect(FirstOf(SeqToSet(urls) \ StatusKeys))
  \/ RewriteAndReturn

PoolSpecInit == PoolInit /\ CheckIdle /\ GatewayIdle /\ FlowIdle

PoolSpecNext == PoolNext /\ UNCHANGED <<cvars, gvars, fvars>>

SpecPool == PoolSpecInit /\ [][PoolSpecNext]_vars

\* C14: at every moment of a pass at most 10 checks are executing, however
\* many unique URLs the text has; a check that is executing is no longer
\* queued; and when verify_links_in_text has returned, no check is queued or
\* executing and every unique URL's future has completed and has its status.
C14_AtMostTenAtOnce ==
  /\ Cardinality(running) <= 10
  /\ running \cap work_queue = {}
  /\ (running \cup work_queue) \cap DOMAIN future_result = {}
  /\ (vpc = "done" /\ urls # <<>>) =>
       /\ work_queue = {} /\ running = {}
       /\ DOMAIN future_result = SeqToSet(urls)
       /\ StatusKeys = SeqToSet(urls)

\* Ten checks are executing and an eleventh waits for a worker.
C14_Witness ==
  /\ vpc = "pool"
  /\ Cardinality(running) = 10
  /\ work_queue # {}
  /\ Cardinality(SeqToSet(urls)) > 10

\* A pass over more than ten unique URLs has returned.
C14_ReturnedFromEleven ==
  vpc = "done" /\ Cardinality(SeqToSet(urls)) > 10 /\ Len(url_statuses) > 10

\* ------------------------------------------------------------------ LinkAnnotator: one check per URL
\* C15: in a pass every distinct extracted URL is submitted once, however
\* often it occurs in the text: check_url_status is never called twice for a
\* URL, it has been called once for exactly the URLs no longer queued, and when
\* verify_links_in_text has returned the number of calls is the number of
\* distinct URLs.
C15_EachUrlCheckedOnce ==
  /\ urls # <<>> => DOMAIN check_calls = SeqToSet(urls)
  /\ \A u \in DOMAIN check_calls :
       check_calls[u] = (IF u \in work_queue THEN 0 ELSE 1)
  /\ (vpc = "done" /\ urls # <<>>) =>
       Cardinality({u \in DOMAIN check_calls : check_calls[u] = 1})
         = Cardinality(SeqToSet(urls))

\* A returned pass over a text in which one URL occurs twice: two matches,
\* one call.
C15_Witness ==
  /\ vpc = "done"
  /\ Len(urls) = 2
  /\ urls[1] = urls[2]
  /\ DOMAIN check_calls = {urls[1]}
  /\ check_calls[urls[1]] = 1

\* ------------------------------------------------------------------ ResultStore: frame of an upsert
\* C16: save_result(topic, result) by a single writer changes the entry of
\* topic only.  The mapping it builds has the keys of the document it loaded
\* and topic, with the loaded record under every other key; that mapping is
\* kept until it is written; what is written reads back as that mapping; and a
\* call that raises on loading leaves the file as it was.
C16_UpsertFrame ==
  [][LET before == load_stored_data(storage_file)
         topic == topic_input[Client]
     IN /\ (pc[Client] = "save_result" /\ pc'[Client] = "save_open") =>
             /\ Keys(data'[Client]) = Keys(before.items) \cup {topic}
             /\ Len(data'[Client]) = Cardinality(Keys(data'[Client]))
             /\ \A k \in Keys(before.items) \ {topic} :
                  DictGet(data'[Client], k) = DictGet(before.items, k)
             /\ DictGet(data'[Client], topic) = Record(perplexity_result[Client])
        /\ (pc[Client] = "save_open" /\ pc'[Client] = "save_dump") =>
             data'[Client] = data[Client]
        /\ (pc[Client] = "save_dump" /\ pc'[Client] # "save_dump") =>
             /\ pc'[Client] = "saved"
             /\ load_stored_data(storage_file') = LoadReturn("dict", data[Client])
        /\ (pc[Client] = "save_result" /\ pc'[Client] = "exception") =>
             storage_file' = storage_file]_vars

\* C16 for the upserts whose mapping holds text that UTF-8 can encode.
C16_OnEncodableText ==
  [][LET before == load_stored_data(storage_file)
         topic == topic_input[Client]
     IN /\ (pc[Client] = "save_result" /\ pc'[Client] = "save_open") =>
             /\ Keys(data'[Client]) = Keys(before.items) \cup {topic}
             /\ \A k \in Keys(before.items) \ {topic} :
                  DictGet(data'[Client], k) = DictGet(before.items, k)
        /\ (pc[Client] = "save_open" /\ pc'[Client] = "save_dump") =>
             data'[Client] = data[Client]
        /\ (pc[Client] = "save_dump" /\ pc'[Client] # "save_dump"
              /\ ~DumpRaises(data[Client])) =>
             /\ pc'[Client] = "saved"
             /\ load_stored_data(storage_file') = LoadReturn("dict", data[Client])]_vars

\* An upsert of T2 has raised while writing, and the record of T1 that the
\* document held before it is gone.
C16_RecordLost ==
  /\ pc[Client] = "exception"
  /\ topic_input[Client] = "T2"
  /\ "T1" \in Keys(load_stored_data(initial_doc).items)
  /\ last_upsert = EmptyMap
  /\ StoreKeys = {}

\* An upsert of T1 has replaced T1's record in a document that also held a
\* record of T2, which is as it was.
C16_Witness ==
  /\ pc[Client] = "saved"
  /\ topic_input[Client] = "T1"
  /\ initial_doc = JsonObject(<< <<"T1", Record(<<"R1">>)>>, <<"T2", Record(<<"R1">>)>> >>)
  /\ storage_file = JsonObject(<< <<"T1", Record(<<"R2", "R2">>)>>, <<"T2", Record(<<"R1">>)>> >>)

\* ------------------------------------------------------------------ session and store: properties
\* Tabs 2 and 3 of a single session.
OneNext ==
  /\ \/ RunStart(Client)
     \/ \E t \in Topics : Tab2Click(Client, t)
     \/ \E o \in ApiOutcomes(ResultTexts, TabCodes) : ResearchReturn(Client, o)
     \/ SaveLoad(Client)
     \/ SaveOpen(Client)
     \/ ResearchSaved(Client)
     \/ \E t \in Topics : Tab3Click(Client, t)
     \/ \E o \in ApiOutcomes(ResultTexts, TabCodes) : ScriptReturn(Client, o)
     \/ RunEnd(Client)
  /\ UNCHANGED <<avars, cvars, gvars>>

SpecOne == Init /\ [][OneNext]_vars

\* Session s is between the open and the end of the write of save_result.
Writing(s) == pc[s] = "save_dump"

\* C17: while no session is in the middle of writing the file, every result a
\* session's research_result holds for a topic is the result of the record the
\* store holds for that topic, so that tab 3 reads what tab 2 shows.
C17_SessionMatchesStore ==
  (\A s \in Sessions : ~Writing(s)) =>
    \A s \in Sessions : \A t \in DOMAIN research_result[s] :
      /\ t \in StoreKeys
      /\ DictGet(load_stored_data(storage_file).items, t).perplexity_result
           = research_result[s][t]

\* Both sessions have researched T1 and show their reports, which differ; the
\* store holds one of them.
C17_TwoReports ==
  /\ \A s \in Sessions : pc[s] = "idle" /\ "T1" \in DOMAIN research_result[s]
  /\ research_result["s1"]["T1"] # research_result["s2"]["T1"]
  /\ "T1" \in StoreKeys

\* One session shows the report of T1 it has researched and saved.
C17_OneReport ==
  /\ pc[Client] = "research_success"
  /\ topic_input[Client] = "T1"
  /\ "T1" \in DOMAIN research_result[Client]
  /\ "T1" \in StoreKeys

====
